---- MODULE Spec2Model ----
(***************************************************************************)
(* Quiz-App: the quiz session engine (components/QuizPlayer.tsx), the       *)
(* application shell and identity reconciliation (App.tsx, authService),    *)
(* the per-owner store (services/storageService.ts) and the import          *)
(* pipeline (components/AdminImport.tsx, services/geminiService.ts).        *)
(*                                                                         *)
(* Strings on which the code computes (trim, letter test, comparison) are   *)
(* sequences of one-character strings; identifiers that are only compared   *)
(* are TLA+ strings.                                                        *)
(***************************************************************************)
EXTENDS Integers, Sequences, FiniteSets, TLC

VARIABLES
    \* ---- App.tsx: appState
    view,           \* appState.view
    currentUser,    \* appState.currentUser (its uid, or NoUser)
    activeQuiz,     \* appState.activeQuiz # null (the QuizPlayer is mounted)
    lastResult,     \* appState.lastResult
    loginError,     \* useState loginError
    \* ---- QuizPlayer.tsx: props and state of the mounted player
    questions,      \* props.questions (fixed for the attempt)
    answers,        \* useState answers: question id -> selected option
    currentIndex,   \* useState currentIndex (0-based)
    timeLeft,       \* useState timeLeft
    timerActive,    \* an interval is registered in timerRef
    submits,        \* the handleSubmit calls made so far, in order
    clicks,         \* option, Submit and bookmark clicks made in this session
    \* ---- identity: the provider, localStorage and the App's listener
    firebaseUser,   \* the provider's current user (uid or NoUser)
    guestData,      \* localStorage "quiz_guest_data" (guest uid or NoUser)
    listenerUser,   \* appState.currentUser as captured by the subscribed listener
    pushDue,        \* the provider owes the listener a push of its current user
    effectDue,      \* appState.currentUser changed: the auth effect will re-run
    popupOpen,      \* a signInWithPopup call is pending
    guestClock,     \* Date.now() as read by loginAsGuest
    signedOut,      \* history: the last explicit sign-out not yet followed by a login
    \* ---- storageService.ts: the documents under users/{uid}
    bookmarksDoc,   \* uid -> users/{uid}/meta/bookmarks
    questionDocs,   \* uid -> the documents of users/{uid}/questions
    nextDocId,      \* crypto.randomUUID(): the ids handed out so far
    toggleLog,      \* history: per (uid, question), the values toggleBookmark returned
    toggleCalls,    \* toggleBookmark calls that have read the document, not yet written
    \* ---- AdminImport.tsx
    resultMsg,      \* useState resultMsg
    importLog,      \* history: the last handleGenerate call (inputs and writes)
    imports,        \* handleGenerate calls made
    \* ---- scoring of one question under both storage conventions
    scoreCase,
    \* ---- QuizPlayer.tsx: bookmarks of the mounted player
    bookmarks,      \* useState bookmarks: the local bookmark view
    loads,          \* the bookmark loads started, one per mount of the player
    pendingToggles, \* bookmark clicks whose store call returned, not yet applied
    \* ---- App.tsx and Dashboard.tsx: reads of the question bank
    reviewQuestions,\* useState reviewQuestions, and whether the effect's read resolved
    lastRead        \* the list the last Dashboard load got from getQuestions

appVars == <<view, currentUser, activeQuiz, lastResult, loginError>>
playerVars == <<questions, answers, currentIndex, timeLeft, timerActive, submits, clicks>>
idVars == <<firebaseUser, guestData, listenerUser, pushDue, effectDue, popupOpen,
            guestClock, signedOut>>

storeVars == <<bookmarksDoc, questionDocs, nextDocId, toggleLog, toggleCalls>>
importVars == <<resultMsg, importLog, imports>>
bookmarkVars == <<bookmarks, loads, pendingToggles>>
readVars == <<reviewQuestions, lastRead>>
restVars == <<storeVars, importVars, scoreCase, bookmarkVars, readVars>>

vars == <<appVars, playerVars, idVars, storeVars, importVars, scoreCase,
          bookmarkVars, readVars>>

(***************************************************************************)
(* Bounds                                                                  *)
(***************************************************************************)
MaxClicks == 2          \* option, Submit and bookmark clicks per session

(***************************************************************************)
(* Strings                                                                 *)
(***************************************************************************)
NoUser == <<>>
Null == <<"null">>      \* JavaScript null/undefined where a string may stand

IsSpace(c) == c = " "

RECURSIVE TrimStart(_)
TrimStart(s) ==
    IF s = <<>> THEN <<>>
    ELSE IF IsSpace(Head(s)) THEN TrimStart(Tail(s)) ELSE s

RECURSIVE TrimEnd(_)
TrimEnd(s) ==
    IF s = <<>> THEN <<>>
    ELSE IF IsSpace(s[Len(s)]) THEN TrimEnd(SubSeq(s, 1, Len(s) - 1)) ELSE s

\* String.prototype.trim
Trim(s) == TrimEnd(TrimStart(s))

UpperLetters == <<"A", "B", "C", "D">>
LowerLetters == <<"a", "b", "c", "d">>

\* ans.match(/[A-D]/i) on a one-character string
MatchesAD(c) == \E i \in 1..4 : c = UpperLetters[i] \/ c = LowerLetters[i]

\* ans.toUpperCase().charCodeAt(0) - 65, for a character that MatchesAD
LetterIdx(c) == (CHOOSE i \in 1..4 : c = UpperLetters[i] \/ c = LowerLetters[i]) - 1

(***************************************************************************)
(* QuizPlayer: scoring                                                     *)
(***************************************************************************)
\* q.options[idx] || q.options[0]
OptionOrFirst(options, idx) ==
    IF idx + 1 <= Len(options) /\ options[idx + 1] # <<>>
    THEN options[idx + 1]
    ELSE options[1]

GetCorrectOptionText(q) ==
    LET ans == Trim(q.correctAnswer) IN
    IF Len(ans) = 1 /\ MatchesAD(ans[1])
    THEN OptionOrFirst(q.options, LetterIdx(ans[1]))
    ELSE ans

\* answers[q.id] || null
SelectedOf(ans, q) ==
    IF q.id \in DOMAIN ans /\ ans[q.id] # <<>> THEN ans[q.id] ELSE Null

DetailOf(ans, q) ==
    LET selected == SelectedOf(ans, q)
        correctText == GetCorrectOptionText(q)
    IN [questionId |-> q.id,
        selectedOption |-> selected,
        correctAnswer |-> correctText,
        isCorrect |-> (selected = correctText)]

\* scoring that counts every answered question
RECURSIVE MapDetailsCountAnswered(_, _, _)
MapDetailsCountAnswered(qs, ans, acc) ==
    IF qs = <<>> THEN acc
    ELSE LET d == DetailOf(ans, Head(qs)) IN
         MapDetailsCountAnswered(Tail(qs), ans,
                    [score |-> IF d.selectedOption # Null THEN acc.score + 1 ELSE acc.score,
                     details |-> Append(acc.details, d)])

\* safeQuestions.map(q => { ...; if (isCorrect) score++; return {...} })
RECURSIVE MapDetails(_, _, _)
MapDetails(qs, ans, acc) ==
    IF qs = <<>> THEN acc
    ELSE LET d == DetailOf(ans, Head(qs)) IN
         MapDetails(Tail(qs), ans,
                    [score |-> IF d.isCorrect THEN acc.score + 1 ELSE acc.score,
                     details |-> Append(acc.details, d)])

\* the QuizResult handleSubmit builds (id: the number of the call)
BuildResult(qs, ans, uid, n) ==
    LET m == MapDetails(qs, ans, [score |-> 0, details |-> <<>>]) IN
    [id |-> n,
     userId |-> uid,
     score |-> m.score,
     totalQuestions |-> Len(qs),
     details |-> m.details]

(***************************************************************************)
(* Identity: authService and the App's auth listener                       *)
(***************************************************************************)
MaxGuests == 2          \* guest logins (distinct Date.now() readings)

\* `guest_${Date.now()}`
GuestUid(n) == <<"guest_", n>>
\* a uid handed out by the provider
FbUid == <<"fb", "A">>

\* uid.startsWith('guest_')
StartsWithGuest(uid) == uid # <<>> /\ uid[1] = "guest_"

\* !appState.currentUser?.uid.startsWith('guest_')
NotGuestMode(user) == ~StartsWithGuest(user)

IdleIdentity ==
    /\ firebaseUser = NoUser
    /\ guestData = NoUser
    /\ listenerUser = NoUser
    /\ pushDue = FALSE
    /\ effectDue = FALSE
    /\ popupOpen = FALSE
    /\ guestClock = 0
    /\ signedOut = "no"

\* a listener that hands the provider's user through, whatever is stored
ListenerDeliversRaw(fb, gd) == fb

\* authService.onAuthStateChanged: what the wrapped listener hands to the
\* App's callback for the provider's user fb and the stored guest gd
ListenerDelivers(fb, gd) ==
    IF fb = NoUser /\ gd # NoUser THEN gd
    ELSE IF fb # NoUser THEN fb
    ELSE NoUser

\* ... and what it leaves in localStorage "quiz_guest_data"
ListenerGuestData(fb, gd) ==
    IF fb = NoUser /\ gd # NoUser THEN gd
    ELSE IF fb # NoUser THEN NoUser
    ELSE gd

\* renderContent, case 'quiz': the QuizPlayer is rendered
Mounted == activeQuiz /\ view = "quiz" /\ currentUser # NoUser

\* a bookmark load started by mount m of the player for userId uid
NewLoad(uid, m) == [active |-> TRUE, status |-> "pending", uid |-> uid, mount |-> m]

\* the mount of the player that started the last load
CurrentMount == IF loads = <<>> THEN 0 ELSE loads[Len(loads)].mount

\* the bookmark effect's cleanup: active = false, in every load started
Deactivated(ls) == [i \in 1..Len(ls) |-> [ls[i] EXCEPT !.active = FALSE]]

\* a timer effect that clears the interval and registers none
TimerEffectClearsOnly(n) == FALSE

\* the timer effect, run for n questions: the old interval is cleared and,
\* unless there is no question, a new one registered
TimerEffect(n) == n # 0

\* the timer effect's cleanup: clearInterval(timerRef.current)
IntervalAfterCleanup(registered) == FALSE

\* the QuizPlayer is unmounted: the effects' cleanups run (the interval is
\* cleared, the loads are deactivated) and its state is gone
Unmount ==
    /\ timerActive' = IntervalAfterCleanup(timerActive)
    /\ answers' = <<>>
    /\ currentIndex' = 0
    /\ timeLeft' = 0
    /\ clicks' = 0
    /\ bookmarks' = {}
    /\ loads' = Deactivated(loads)

\* The player after the App's view or identity changed.  It is unmounted
\* when the quiz case no longer renders it (appState.activeQuiz stays).  When
\* it stays and currentUser.uid changed, its prop userId changed: the
\* bookmark effect re-runs (the old load is deactivated, a new one starts)
\* and handleSubmit is a new function, so the timer effect re-registers the
\* interval; the state of the attempt is kept.
PlayerAfterAppChange ==
    IF ~Mounted
    THEN UNCHANGED <<playerVars, bookmarks, loads>>
    ELSE IF ~(view' = "quiz" /\ currentUser' # NoUser)
    THEN Unmount /\ UNCHANGED <<questions, submits>>
    ELSE IF currentUser' # currentUser
    THEN /\ timerActive' = TimerEffect(Len(questions))
         /\ loads' = Append(Deactivated(loads), NewLoad(currentUser', CurrentMount))
         /\ UNCHANGED <<questions, answers, currentIndex, timeLeft, submits, clicks,
                        bookmarks>>
    ELSE UNCHANGED <<playerVars, bookmarks, loads>>

\* the App's callback, with the currentUser its closure captured
AppOnAuth(user) ==
    IF user # NoUser
    THEN /\ currentUser' = user
         /\ view' = IF view = "auth" THEN "dashboard" ELSE view
         /\ loginError' = "none"
         /\ effectDue' = TRUE       \* a new object each time
    ELSE IF NotGuestMode(listenerUser)
    THEN /\ currentUser' = NoUser
         /\ view' = "auth"
         /\ effectDue' = (effectDue \/ currentUser # NoUser)
         /\ UNCHANGED loginError
    ELSE UNCHANGED <<currentUser, view, loginError, effectDue>>

\* the provider calls the subscribed listener with its current user
ProviderPush ==
    /\ pushDue
    /\ pushDue' = FALSE
    /\ guestData' = ListenerGuestData(firebaseUser, guestData)
    /\ AppOnAuth(ListenerDelivers(firebaseUser, guestData))
    /\ signedOut' = IF firebaseUser # NoUser THEN "no" ELSE signedOut
    /\ PlayerAfterAppChange
    /\ UNCHANGED <<firebaseUser, listenerUser, popupOpen, guestClock,
                   activeQuiz, lastResult, storeVars, importVars, scoreCase,
                   pendingToggles, readVars>>

\* the auth effect re-runs ([appState.currentUser]): unsubscribe, subscribe a
\* listener closing over the current appState; the provider then pushes its
\* current user to the new subscriber
Resubscribe ==
    /\ effectDue
    /\ effectDue' = FALSE
    /\ listenerUser' = currentUser
    /\ pushDue' = TRUE
    /\ UNCHANGED <<firebaseUser, guestData, popupOpen, guestClock, signedOut,
                   appVars, playerVars, restVars>>

\* handleGuestLogin with authService.loginAsGuest
HandleGuestLogin ==
    /\ view = "auth"
    /\ guestClock < MaxGuests
    /\ guestClock' = guestClock + 1
    /\ guestData' = GuestUid(guestClock')
    /\ currentUser' = GuestUid(guestClock')
    /\ view' = "dashboard"
    /\ loginError' = "none"
    /\ effectDue' = TRUE
    /\ signedOut' = "no"
    /\ UNCHANGED <<firebaseUser, listenerUser, pushDue, popupOpen,
                   activeQuiz, lastResult, playerVars, restVars>>

\* handleLogin up to the popup: setLoginError(null); signInWithGoogle removes
\* the guest data and opens the popup
HandleLogin ==
    /\ view = "auth" /\ loginError = "none" /\ ~popupOpen
    /\ loginError' = "none"
    /\ guestData' = NoUser
    /\ popupOpen' = TRUE
    /\ UNCHANGED <<firebaseUser, listenerUser, pushDue, effectDue, guestClock,
                   signedOut, view, currentUser, activeQuiz, lastResult, playerVars, restVars>>

PopupOutcomes == {"ok", "auth/popup-closed-by-user", "auth/cancelled-popup-request",
                  "auth/unauthorized-domain", "auth/network-request-failed"}

\* the code of the error signInWithGoogle throws for the provider's error
ThrownCode(outcome) ==
    IF outcome \in {"auth/popup-closed-by-user", "auth/cancelled-popup-request"}
    THEN "undefined"        \* new Error(...): no code
    ELSE outcome

\* handleLogin's catch
LoginErrorOf(outcome) ==
    LET code == ThrownCode(outcome) IN
    IF code = "auth/unauthorized-domain" THEN "domain"
    ELSE IF code # "auth/popup-closed-by-user" THEN "generic"
    ELSE loginError

\* signInWithPopup settles
PopupSettle(outcome) ==
    /\ popupOpen
    /\ popupOpen' = FALSE
    /\ IF outcome = "ok"
       THEN /\ firebaseUser' = FbUid
            /\ pushDue' = TRUE
            /\ UNCHANGED loginError
       ELSE /\ loginError' = LoginErrorOf(outcome)
            /\ UNCHANGED <<firebaseUser, pushDue>>
    /\ UNCHANGED <<guestData, listenerUser, effectDue, guestClock, signedOut,
                   view, currentUser, activeQuiz, lastResult, playerVars, restVars>>

\* "Back to Login": setLoginError(null)
DismissLoginError ==
    /\ view = "auth" /\ loginError # "none"
    /\ loginError' = "none"
    /\ UNCHANGED <<idVars, view, currentUser, activeQuiz, lastResult, playerVars, restVars>>

\* handleLogout: a guest is reset locally; otherwise authService.signOut
HandleLogout ==
    /\ currentUser # NoUser /\ view # "auth"
    /\ IF StartsWithGuest(currentUser)
       THEN /\ currentUser' = NoUser
            /\ view' = "auth"
            /\ effectDue' = TRUE
            /\ signedOut' = "guest"
            /\ UNCHANGED <<firebaseUser, guestData, pushDue>>
       ELSE /\ firebaseUser' = NoUser
            /\ guestData' = NoUser
            /\ pushDue' = TRUE
            /\ signedOut' = "remote"
            /\ UNCHANGED <<currentUser, view, effectDue>>
    /\ PlayerAfterAppChange
    /\ UNCHANGED <<listenerUser, popupOpen, guestClock, loginError,
                   activeQuiz, lastResult, storeVars, importVars, scoreCase,
                   pendingToggles, readVars>>

\* the navigation bar: dashboard and admin
Navigate(v) ==
    /\ currentUser # NoUser /\ view # "auth"
    /\ view' = v
    /\ UNCHANGED <<idVars, currentUser, activeQuiz, lastResult, loginError,
                   storeVars, importVars, scoreCase, pendingToggles, readVars>>
    /\ PlayerAfterAppChange


(***************************************************************************)
(* storageService: bookmarks and the question bank, per owner              *)
(***************************************************************************)
MaxToggles == 4         \* toggleBookmark calls
MaxDocs == 2            \* document ids handed out to direct addQuestions calls

Owners == {GuestUid(1), FbUid}
QuestionIds == {"q1", "q2"}

NoDoc == [exists |-> FALSE, ids |-> <<>>]

InSeq(x, arr) == \E i \in 1..Len(arr) : arr[i] = x

\* Firestore arrayUnion / arrayRemove on the stored array
ArrayUnion(arr, x) == IF InSeq(x, arr) THEN arr ELSE Append(arr, x)
ArrayRemove(arr, x) == SelectSeq(arr, LAMBDA y : y # x)

\* a read of one bookmark document shared by all owners
GetUserBookmarksShared(uid) ==
    IF bookmarksDoc[FbUid].exists THEN bookmarksDoc[FbUid].ids ELSE <<>>

\* getUserBookmarks: snap.exists() ? snap.data().ids || [] : []
GetUserBookmarks(uid) ==
    IF bookmarksDoc[uid].exists THEN bookmarksDoc[uid].ids ELSE <<>>

\* the value toggleBookmark returns for the snapshot it read
ToggleReturns(snap, qId) ==
    IF ~snap.exists THEN TRUE ELSE ~InSeq(qId, snap.ids)

\* a toggle that never removes
ToggleWritesUnionOnly(snap, qId) ==
    IF ~snap.exists THEN [exists |-> TRUE, ids |-> <<qId>>]
    ELSE [exists |-> TRUE, ids |-> ArrayUnion(snap.ids, qId)]

\* the document toggleBookmark leaves for the snapshot it read
ToggleWrites(snap, qId) ==
    IF ~snap.exists THEN [exists |-> TRUE, ids |-> <<qId>>]
    ELSE IF ~InSeq(qId, snap.ids)
    THEN [exists |-> TRUE, ids |-> ArrayUnion(snap.ids, qId)]
    ELSE [exists |-> TRUE, ids |-> ArrayRemove(snap.ids, qId)]

RECURSIVE SumLen(_, _)
SumLen(log, pairs) ==
    IF pairs = {} THEN 0
    ELSE LET p == CHOOSE x \in pairs : TRUE IN
         Len(log[p[1]][p[2]]) + SumLen(log, pairs \ {p})

TogglesMade == SumLen(toggleLog, Owners \X QuestionIds)

\* toggleBookmark(userId, qId), run to completion
ToggleBookmark(uid, qId) ==
    /\ TogglesMade < MaxToggles
    /\ bookmarksDoc' = [bookmarksDoc EXCEPT ![uid] = ToggleWrites(bookmarksDoc[uid], qId)]
    /\ toggleLog' = [toggleLog EXCEPT ![uid][qId] =
                        Append(@, ToggleReturns(bookmarksDoc[uid], qId))]
    /\ UNCHANGED <<questionDocs, nextDocId, toggleCalls, importVars, scoreCase, appVars,
                   playerVars, idVars, bookmarkVars, readVars>>

MaxConcurrent == 2      \* toggleBookmark calls in flight at once

\* the document a call leaves that read snap and now writes over cur:
\* setDoc(ref, {ids: [qId]}) when it read no document, otherwise updateDoc
\* with arrayUnion or arrayRemove, which the store applies to the array it
\* holds at the time of the write
ToggleWriteOn(cur, snap, qId) ==
    IF ~snap.exists THEN [exists |-> TRUE, ids |-> <<qId>>]
    ELSE IF ~InSeq(qId, snap.ids)
    THEN [exists |-> TRUE, ids |-> ArrayUnion(cur.ids, qId)]
    ELSE [exists |-> TRUE, ids |-> ArrayRemove(cur.ids, qId)]

\* toggleBookmark up to its first await: getDoc(ref)
ToggleRead(uid, qId) ==
    /\ TogglesMade + Len(toggleCalls) < MaxToggles
    /\ Len(toggleCalls) < MaxConcurrent
    /\ toggleCalls' = Append(toggleCalls,
                             [uid |-> uid, q |-> qId, snap |-> bookmarksDoc[uid]])
    /\ UNCHANGED <<bookmarksDoc, questionDocs, nextDocId, toggleLog, importVars,
                   scoreCase, appVars, playerVars, idVars, bookmarkVars, readVars>>

\* ... and from the snapshot on: the write and the returned value
ToggleWrite(i) ==
    /\ i \in 1..Len(toggleCalls)
    /\ LET c == toggleCalls[i] IN
       /\ bookmarksDoc' = [bookmarksDoc EXCEPT
                               ![c.uid] = ToggleWriteOn(@, c.snap, c.q)]
       /\ toggleLog' = [toggleLog EXCEPT ![c.uid][c.q] =
                            Append(@, ToggleReturns(c.snap, c.q))]
    /\ toggleCalls' = [k \in 1..(Len(toggleCalls) - 1) |->
                          IF k < i THEN toggleCalls[k] ELSE toggleCalls[k + 1]]
    /\ UNCHANGED <<questionDocs, nextDocId, importVars, scoreCase, appVars,
                   playerVars, idVars, bookmarkVars, readVars>>

\* A document is a record of its data fields, with its name in the collection
\* as field docId.  A field the document does not have is undefined.
Has(d, f) == f \in DOMAIN d

\* truthiness of a string field: not undefined and not ""
TruthyString(d, f) == Has(d, f) /\ d[f] # <<>>
\* truthiness of an array field: not undefined
TruthyArray(d, f) == Has(d, f)

\* Array.isArray(data.questions)
IsArrayFormat(d) == Has(d, "questions")

\* a validation that does not ask for correctAnswer
PassesValidationLoose(d) ==
    TruthyString(d, "id") /\ TruthyString(d, "text") /\ TruthyArray(d, "options")

\* data.id && data.text && data.options && data.correctAnswer
PassesValidation(d) ==
    /\ TruthyString(d, "id") /\ TruthyString(d, "text")
    /\ TruthyArray(d, "options") /\ TruthyString(d, "correctAnswer")

\* getQuestions: the documents that are not in array format and pass the
\* single-question validation
GetQuestions(uid) ==
    {d \in questionDocs[uid] : ~IsArrayFormat(d) /\ PassesValidation(d)}

\* JavaScript undefined as an argument, distinct from every list of ids
Undefined == << <<"undefined", 0>> >>

\* ids.map(id => map.get(id)).filter(Boolean) over new Map(all.map(q => [q.id, q]))
RECURSIVE ResolveIds(_, _)
ResolveIds(all, ids) ==
    IF ids = <<>> THEN <<>>
    ELSE LET rest == ResolveIds(all, Tail(ids)) IN
         IF \E q \in all : q.id = Head(ids)
         THEN <<CHOOSE q \in all : q.id = Head(ids)>> \o rest
         ELSE rest

\* getQuestionsByIds(userId, ids)
GetQuestionsByIds(userId, ids) ==
    IF ids = Undefined \/ Len(ids) = 0 THEN <<>>
    ELSE ResolveIds(GetQuestions(userId), ids)

\* ids: crypto.randomUUID() readings, and ids a caller put into its questions
DocId(n) == <<"doc", n>>
CallerId(n) == <<"caller", n>>

\* a document named by the id the caller supplied
DocIdFromCaller(q, fresh) == q.id

\* doc(colRef, crypto.randomUUID()): the name of the document for question q
DocIdFor(q, fresh) == fresh

\* { ...q, id: docRef.id } as the document named docId
StoredDoc(q, docId) ==
    [f \in DOMAIN q \cup {"id", "docId"} |->
        IF f \in {"id", "docId"} THEN docId ELSE q[f]]

\* setDoc: a document written under an existing name replaces that document
SetDocs(docs, new) == {e \in docs : \A d \in new : d.docId # e.docId} \cup new

\* the documents addQuestions(userId, qs) sets: every question under a fresh
\* document id, which is also stored as its id; landed[i] tells whether the
\* i-th setDoc of the fan-out succeeded
AddedDocs(qs, landed, firstId) ==
    { StoredDoc(qs[i], DocIdFor(qs[i], DocId(firstId + i))) :
        i \in {j \in 1..Len(qs) : landed[j]} }

\* addQuestions on its own (any caller, any owner)
AddQuestions(uid, qs, landed) ==
    /\ nextDocId < MaxDocs
    /\ questionDocs' = [questionDocs EXCEPT
                           ![uid] = SetDocs(@, AddedDocs(qs, landed, nextDocId))]
    /\ nextDocId' = nextDocId + Len(qs)
    /\ UNCHANGED <<bookmarksDoc, toggleLog, toggleCalls, importVars, scoreCase, appVars,
                   playerVars, idVars, bookmarkVars, readVars>>

EmptyLog == [u \in Owners |-> [q \in QuestionIds |-> <<>>]]

IdleStore ==
    /\ bookmarksDoc = [u \in Owners |-> NoDoc]
    /\ questionDocs = [u \in Owners |-> {}]
    /\ nextDocId = 0
    /\ toggleLog = EmptyLog
    /\ toggleCalls = <<>>

(***************************************************************************)
(* AdminImport.handleGenerate with geminiService                           *)
(***************************************************************************)
MaxImports == 1         \* handleGenerate calls
MaxRaw == 2             \* items in one answer of the generative model
MaxCount == 2           \* the requested question count

ImportUser == FbUid

\* question texts the generator may return: case and whitespace variants
RawTexts == {<<"a">>, <<"A">>, <<" ", "a">>}

RECURSIVE SeqsUpTo(_, _)
SeqsUpTo(S, n) ==
    IF n = 0 THEN {<<>>}
    ELSE LET shorter == SeqsUpTo(S, n - 1) IN
         shorter \cup {Append(t, x) : t \in shorter, x \in S}

\* the options and the correctAnswer of every generated item
TwoOptions == << <<"x">>, <<"y">> >>
LetterA == <<"A">>

\* the generator's answers, as the adapter maps them: item i gets the id
\* generateId() made for it and carries its position as tag, standing for
\* its topic and subject
RawAnswers ==
    { [i \in 1..Len(t) |->
          [id |-> CallerId(i), text |-> t[i], options |-> TwoOptions,
           correctAnswer |-> LetterA, tag |-> i]] :
        t \in SeqsUpTo(RawTexts, MaxRaw) }

MinOf(a, b) == IF a <= b THEN a ELSE b

\* arr.slice(0, n) for n >= 0
SliceTo(arr, n) == SubSeq(arr, 1, MinOf(n, Len(arr)))

\* geminiService.generateQuestionsFrom*: rawData.slice(0, count).map(...)
AdapterReturns(raw, count) == SliceTo(raw, count)

\* the keys of new Map(qs.map(q => [q.text.trim(), q])), in insertion order
RECURSIVE MapKeys(_, _)
MapKeys(qs, seen) ==
    IF qs = <<>> THEN seen
    ELSE LET k == Trim(Head(qs).text) IN
         MapKeys(Tail(qs), IF InSeq(k, seen) THEN seen ELSE Append(seen, k))

\* the value the Map holds for key k: the last entry set under it
MapValue(qs, k) ==
    qs[CHOOSE i \in 1..Len(qs) :
          /\ Trim(qs[i].text) = k
          /\ \A j \in (i + 1)..Len(qs) : Trim(qs[j].text) # k]

\* Array.from(new Map(...).values())
UniqueByText(qs) ==
    LET keys == MapKeys(qs, <<>>) IN
    [i \in 1..Len(keys) |-> MapValue(qs, keys[i])]

FinalQuestions(qs, count) == SliceTo(UniqueByText(qs), count)

\* a handler without the emptiness checks
ImportPlanUnchecked(genOk, returned, count) ==
    IF ~genOk
    THEN [call |-> FALSE, docs |-> <<>>]
    ELSE [call |-> TRUE, docs |-> FinalQuestions(returned, count)]

\* handleGenerate after the generator settled: whether addQuestions is
\* called, with what, and whether an error is thrown before the call
ImportPlan(genOk, returned, count) ==
    IF ~genOk \/ returned = <<>>
    THEN [call |-> FALSE, docs |-> <<>>]
    ELSE LET final == FinalQuestions(returned, count) IN
         IF final = <<>>
         THEN [call |-> FALSE, docs |-> <<>>]
         ELSE [call |-> TRUE, docs |-> final]

NoImport == [count |-> 0, genOk |-> FALSE, returned |-> <<>>, called |-> FALSE,
             written |-> {}, before |-> {}]

IdleImport ==
    /\ resultMsg = "none"
    /\ importLog = NoImport
    /\ imports = 0

\* handleGenerate(): the guards, the generator call, dedup and truncation,
\* addQuestions, and the message shown
HandleGenerate(count, genOk, raw, landed) ==
    /\ imports < MaxImports
    /\ imports' = imports + 1
    /\ IF count < 1
       THEN /\ resultMsg' = "error"
            /\ UNCHANGED <<importLog, questionDocs, nextDocId>>
       ELSE LET returned == IF genOk THEN AdapterReturns(raw, count) ELSE <<>>
                plan == ImportPlan(genOk, returned, count)
                docs == AddedDocs(plan.docs, landed, nextDocId)
            IN /\ questionDocs' = [questionDocs EXCEPT ![ImportUser] = SetDocs(@, docs)]
               /\ nextDocId' = nextDocId + Len(plan.docs)
               /\ resultMsg' = IF plan.call /\ \A i \in 1..Len(plan.docs) : landed[i]
                               THEN "success" ELSE "error"
               /\ importLog' = [count |-> count, genOk |-> genOk, returned |-> returned,
                                called |-> plan.call, written |-> docs,
                                before |-> questionDocs[ImportUser]]
    /\ UNCHANGED <<bookmarksDoc, toggleLog, toggleCalls, scoreCase, appVars, playerVars, idVars,
                   bookmarkVars, readVars>>

(***************************************************************************)
(* Scoring one question stored under the two conventions                   *)
(***************************************************************************)
MaxOptionLen == 2       \* characters in an option text

ScoreChars == {"A", "B", "x", " "}

\* option texts: not blank
OptionTexts == {t \in SeqsUpTo(ScoreChars, MaxOptionLen) : Trim(t) # <<>>}

NoCase == [options |-> <<>>, correct |-> 0, selected |-> 0, scored |-> FALSE,
           byLetter |-> FALSE, byText |-> FALSE]

IdleScore == scoreCase = NoCase

\* isCorrect as handleSubmit computes it for a question with these options
\* and this stored correctAnswer, when option number selected is chosen
IsCorrectFor(options, stored, selected) ==
    LET q == [id |-> "q", options |-> options, correctAnswer |-> stored]
        ans == [x \in {"q"} |-> options[selected]]
    IN DetailOf(ans, q).isCorrect

\* the same question stored by letter and by literal text, the same selection
ScoreBoth ==
    /\ ~scoreCase.scored
    /\ scoreCase' = [scoreCase EXCEPT
          !.scored = TRUE,
          !.byLetter = IsCorrectFor(scoreCase.options,
                                    <<UpperLetters[scoreCase.correct]>>,
                                    scoreCase.selected),
          !.byText = IsCorrectFor(scoreCase.options,
                                  scoreCase.options[scoreCase.correct],
                                  scoreCase.selected)]
    /\ UNCHANGED <<appVars, playerVars, idVars, storeVars, importVars,
                   bookmarkVars, readVars>>

(***************************************************************************)
(* QuizPlayer: the session                                                 *)
(***************************************************************************)
SecondsPerQuestion == 60

\* no player was mounted yet: no bookmark load, no bookmark click
IdleBookmarks ==
    /\ bookmarks = {}
    /\ loads = <<>>
    /\ pendingToggles = <<>>

NoRead == [done |-> FALSE, list |-> {}]
NoReview == [done |-> FALSE, list |-> <<>>]

IdleReads ==
    /\ reviewQuestions = NoReview
    /\ lastRead = NoRead

Str1(c) == <<c>>

Q1 == [id |-> "q1", options |-> <<Str1("x"), Str1("y")>>, correctAnswer |-> Str1("x")]
Q2 == [id |-> "q2", options |-> <<Str1("x"), Str1("y")>>, correctAnswer |-> Str1("B")]
Q3 == [id |-> "q3", options |-> <<Str1("x"), Str1("y")>>, correctAnswer |-> Str1("y")]

\* the question lists a session may be started with (App.startQuiz never
\* starts one with no question)
QuizLists == { <<Q1, Q2, Q3>>, <<Q2>> }

QuizUser == FbUid

NoResult == [id |-> 0]

EmptyAnswers == <<>>

\* an interval registered once, closing over the first render's answers
TimerClosureStale(ans) == EmptyAnswers

\* The answers the interval callback's handleSubmit closes over.  The timer
\* effect depends on handleSubmit, which depends on answers: every change of
\* answers re-registers the interval with the current handleSubmit.
TimerClosureAnswers(ans) == ans

\* handleSubmit(): builds the result and issues saveQuizResult, whose
\* settlement delivers it
HandleSubmit(by, ans) ==
    submits' = Append(submits,
                      [by |-> by,
                       result |-> BuildResult(questions, ans, currentUser, Len(submits) + 1),
                       status |-> "pending",
                       answersAtCall |-> answers])   \* history: the state's answers

\* the player as mounted, scored and submitted; its bookmark load and
\* bookmark button are left to SpecSession
InitQuiz ==
    /\ IdleIdentity /\ IdleStore /\ IdleImport /\ IdleScore
    /\ IdleBookmarks /\ IdleReads
    /\ loginError = "none"
    /\ view = "quiz"
    /\ currentUser = QuizUser
    /\ activeQuiz = TRUE
    /\ lastResult = NoResult
    /\ questions \in QuizLists
    /\ answers = EmptyAnswers
    /\ currentIndex = 0
    /\ timeLeft = Len(questions) * SecondsPerQuestion
    /\ timerActive = TRUE
    /\ submits = <<>>
    /\ clicks = 0

\* an update that keeps only the new selection
SetAnswerAlone(p, qid, opt) == [x \in {qid} |-> opt]

\* { ...p, [q.id]: opt }
SetAnswer(p, qid, opt) ==
    [x \in DOMAIN p \cup {qid} |-> IF x = qid THEN opt ELSE p[x]]

\* option button onClick: setAnswers(p => ({...p, [q.id]: opt})); answers is a
\* new object, so handleSubmit changes and the timer effect re-registers the
\* interval
SelectOption(opt) ==
    /\ Mounted /\ clicks < MaxClicks
    /\ answers' = SetAnswer(answers, questions[currentIndex + 1].id, opt)
    /\ timerActive' = TimerEffect(Len(questions))
    /\ clicks' = clicks + 1
    /\ UNCHANGED <<restVars, idVars, loginError, view, currentUser, activeQuiz, lastResult, questions,
                   currentIndex, timeLeft, submits>>

\* disabled={currentIndex === 0}
PreviousDisabled(i) == i = 0

\* a Next button that is never disabled
NextNeverDisabled(i, n) == FALSE

\* disabled={currentIndex === safeQuestions.length - 1}
NextDisabled(i, n) == i = n - 1

\* Previous: disabled at the first question; setCurrentIndex(i => i - 1)
PreviousQuestion ==
    /\ Mounted
    /\ ~PreviousDisabled(currentIndex)
    /\ currentIndex' = currentIndex - 1
    /\ UNCHANGED <<restVars, idVars, loginError, view, currentUser, activeQuiz, lastResult, questions, answers,
                   timeLeft, timerActive, submits, clicks>>

\* Next: disabled at the last question; setCurrentIndex(i => i + 1)
NextQuestion ==
    /\ Mounted
    /\ ~NextDisabled(currentIndex, Len(questions))
    /\ currentIndex' = currentIndex + 1
    /\ UNCHANGED <<restVars, idVars, loginError, view, currentUser, activeQuiz, lastResult, questions, answers,
                   timeLeft, timerActive, submits, clicks>>

\* the Submit button
ManualSubmit ==
    /\ Mounted /\ clicks < MaxClicks
    /\ HandleSubmit("manual", answers)
    /\ clicks' = clicks + 1
    /\ UNCHANGED <<restVars, idVars, loginError, view, currentUser, activeQuiz, lastResult, questions, answers,
                   currentIndex, timeLeft, timerActive>>

\* a countdown that does not stop at zero
NextTimeLeftUnclamped(prev) == prev - 1

\* the value the updater of setTimeLeft returns: prev <= 1 ? 0 : prev - 1
NextTimeLeft(prev) == IF prev <= 1 THEN 0 ELSE prev - 1

\* the interval callback: setTimeLeft(prev => ...)
TimerTick ==
    /\ timerActive
    /\ timeLeft' = NextTimeLeft(timeLeft)
    /\ IF timeLeft <= 1
       THEN /\ timerActive' = FALSE
            /\ HandleSubmit("timer", TimerClosureAnswers(answers))
       ELSE UNCHANGED <<timerActive, submits>>
    /\ UNCHANGED <<restVars, idVars, loginError, view, currentUser, activeQuiz, lastResult, questions, answers,
                   currentIndex, clicks>>

\* App.handleQuizComplete
HandleQuizComplete(result) ==
    /\ view' = "review"
    /\ activeQuiz' = FALSE
    /\ lastResult' = result

\* a load that never looks at its flag
LoadAppliesAlways(active) == TRUE

\* the bookmark load after its await: if (!active) return
LoadApplies(active) == active

\* a callback attached with .then(...): it runs only when the write succeeded
RunsOnFulfilOnly(ok) == ok

\* the callback attached with .finally(...): it runs when the promise settles,
\* fulfilled or rejected
RunsOnSettle(ok) == TRUE

\* saveQuizResult settles (written or rejected); the .finally callback clears
\* the interval and calls onComplete, which unmounts the player
SaveSettle(i, ok) ==
    /\ i \in 1..Len(submits)
    /\ submits[i].status = "pending"
    /\ submits' = [submits EXCEPT ![i].status = IF ok THEN "saved" ELSE "failed"]
    /\ IF RunsOnSettle(ok)
       THEN HandleQuizComplete(submits[i].result) /\ Unmount
       ELSE UNCHANGED <<view, activeQuiz, lastResult, timerActive, answers,
                        currentIndex, timeLeft, clicks, bookmarks, loads>>
    /\ UNCHANGED <<storeVars, importVars, scoreCase, readVars, pendingToggles,
                   idVars, loginError, currentUser, questions>>

NextQuiz ==
    \/ \E opt \in {Str1("x"), Str1("y")} : SelectOption(opt)
    \/ PreviousQuestion
    \/ NextQuestion
    \/ ManualSubmit
    \/ TimerTick
    \/ \E i \in 1..Len(submits), ok \in BOOLEAN : SaveSettle(i, ok)

SpecQuiz == InitQuiz /\ [][NextQuiz]_vars

(***************************************************************************)
(* QuizPlayer: mounts, the bookmark load and the bookmark button            *)
(***************************************************************************)
MaxMounts == 2          \* mounts of the player
MaxPending == 1         \* bookmark clicks whose local update is outstanding

SessionLists == { <<Q1, Q2>> }

\* new Set(ids.filter(id => safeQuestions.some(q => q.id === id)))
Relevant(ids, qs) ==
    {ids[i] : i \in 1..Len(ids)} \cap {qs[k].id : k \in 1..Len(qs)}

\* the bookmark load of mount i settles: getUserBookmarks resolved (ok) or
\* rejected; a load whose effect was cleaned up returns without setBookmarks
LoadSettle(i, ok) ==
    /\ i \in 1..Len(loads)
    /\ loads[i].status = "pending"
    /\ IF ok /\ LoadApplies(loads[i].active)
       THEN /\ bookmarks' = Relevant(GetUserBookmarks(loads[i].uid), questions)
            /\ loads' = [loads EXCEPT ![i].status = "applied"]
       ELSE /\ loads' = [loads EXCEPT ![i].status = IF ok THEN "dropped" ELSE "failed"]
            /\ UNCHANGED bookmarks
    /\ UNCHANGED <<appVars, playerVars, idVars, storeVars, importVars, scoreCase,
                   pendingToggles, readVars>>

\* bookmark button onClick up to the await: storageService.toggleBookmark
\* for the current question, run to completion
BookmarkClick ==
    /\ Mounted /\ clicks < MaxClicks
    /\ TogglesMade < MaxToggles
    /\ Len(pendingToggles) < MaxPending
    /\ clicks' = clicks + 1
    /\ LET q == questions[currentIndex + 1].id
           snap == bookmarksDoc[currentUser]
       IN /\ bookmarksDoc' = [bookmarksDoc EXCEPT ![currentUser] = ToggleWrites(snap, q)]
          /\ toggleLog' = [toggleLog EXCEPT ![currentUser][q] =
                               Append(@, ToggleReturns(snap, q))]
          /\ pendingToggles' = Append(pendingToggles,
                                      [q |-> q, returned |-> ToggleReturns(snap, q),
                                       mount |-> CurrentMount])
    /\ UNCHANGED <<appVars, questions, answers, currentIndex, timeLeft, timerActive,
                   submits, idVars, questionDocs, nextDocId, toggleCalls, importVars,
                   scoreCase, bookmarks, loads, readVars>>

\* next.has(q.id) ? next.delete(q.id) : next.add(q.id)
FlipBookmark(set, q) == IF q \in set THEN set \ {q} ELSE set \cup {q}

\* bookmark button onClick after the await: setBookmarks(prev => ...), which
\* does nothing once the player that was clicked is unmounted
BookmarkApply(i) ==
    /\ i \in 1..Len(pendingToggles)
    /\ LET t == pendingToggles[i] IN
       bookmarks' = IF Mounted /\ t.mount = CurrentMount
                    THEN FlipBookmark(bookmarks, t.q)
                    ELSE bookmarks
    /\ pendingToggles' = [k \in 1..(Len(pendingToggles) - 1) |->
                             IF k < i THEN pendingToggles[k] ELSE pendingToggles[k + 1]]
    /\ UNCHANGED <<appVars, playerVars, idVars, storeVars, importVars, scoreCase,
                   loads, readVars>>

\* onExit: the App leaves the quiz view and the player is unmounted
Exit ==
    /\ Mounted
    /\ view' = "dashboard"
    /\ activeQuiz' = FALSE
    /\ Unmount
    /\ UNCHANGED <<currentUser, lastResult, loginError, questions, submits,
                   pendingToggles, idVars, storeVars, importVars, scoreCase, readVars>>

\* the App renders a QuizPlayer for a new activeQuiz: initial state, the
\* reset effect, a new bookmark load and a new interval
Mount(qs) ==
    /\ ~activeQuiz
    /\ Len(loads) < MaxMounts
    /\ view' = "quiz"
    /\ activeQuiz' = TRUE
    /\ questions' = qs
    /\ answers' = EmptyAnswers
    /\ currentIndex' = 0
    /\ timeLeft' = Len(qs) * SecondsPerQuestion
    /\ timerActive' = TimerEffect(Len(qs))
    /\ clicks' = 0
    /\ bookmarks' = {}
    /\ loads' = Append(loads, NewLoad(currentUser, CurrentMount + 1))
    /\ UNCHANGED <<currentUser, lastResult, loginError, submits, pendingToggles,
                   idVars, storeVars, importVars, scoreCase, readVars>>

\* the player is mounted for a user who may have bookmarked q1 before
InitSession ==
    /\ IdleIdentity /\ IdleImport /\ IdleScore /\ IdleReads
    /\ loginError = "none"
    /\ view = "quiz"
    /\ currentUser = QuizUser
    /\ activeQuiz = TRUE
    /\ lastResult = NoResult
    /\ questions \in SessionLists
    /\ answers = EmptyAnswers
    /\ currentIndex = 0
    /\ timeLeft = Len(questions) * SecondsPerQuestion
    /\ timerActive = TRUE
    /\ submits = <<>>
    /\ clicks = 0
    /\ bookmarks = {}
    /\ loads = <<NewLoad(QuizUser, 1)>>
    /\ pendingToggles = <<>>
    /\ questionDocs = [u \in Owners |-> {}]
    /\ nextDocId = 0
    /\ toggleLog = EmptyLog
    /\ toggleCalls = <<>>
    /\ \E before \in {NoDoc, [exists |-> TRUE, ids |-> <<"q1">>]} :
          bookmarksDoc = [u \in Owners |-> IF u = QuizUser THEN before ELSE NoDoc]

\* the life of the player: mounts and unmounts, with the clock, the history
\* write and the bookmark load running across them
NextSession ==
    \/ TimerTick
    \/ \E i \in 1..Len(submits), ok \in BOOLEAN : SaveSettle(i, ok)
    \/ \E i \in 1..Len(loads), ok \in BOOLEAN : LoadSettle(i, ok)
    \/ Exit
    \/ \E qs \in SessionLists : Mount(qs)

SpecSession == InitSession /\ [][NextSession]_vars

\* one mount of the player, with the user answering, moving and bookmarking
NextBookmark ==
    \/ \E opt \in {Str1("x"), Str1("y")} : SelectOption(opt)
    \/ PreviousQuestion
    \/ NextQuestion
    \/ TimerTick
    \/ \E i \in 1..Len(submits), ok \in BOOLEAN : SaveSettle(i, ok)
    \/ \E i \in 1..Len(loads), ok \in BOOLEAN : LoadSettle(i, ok)
    \/ BookmarkClick
    \/ \E i \in 1..Len(pendingToggles) : BookmarkApply(i)
    \/ Exit

SpecBookmark == InitSession /\ [][NextBookmark]_vars

\* a session in which the user never clicks Submit
NextLive ==
    \/ \E opt \in {Str1("x"), Str1("y")} : SelectOption(opt)
    \/ PreviousQuestion
    \/ NextQuestion
    \/ TimerTick
    \/ \E i \in 1..Len(submits), ok \in BOOLEAN : SaveSettle(i, ok)
    \/ Exit

\* a registered interval keeps firing, and a history write settles
Fairness ==
    /\ WF_vars(TimerTick)
    /\ WF_vars(\E i \in 1..Len(submits), ok \in BOOLEAN : SaveSettle(i, ok))

SpecLive == InitQuiz /\ [][NextLive]_vars /\ Fairness

IdlePlayer ==
    /\ questions = <<>>
    /\ answers = <<>>
    /\ currentIndex = 0
    /\ timeLeft = 0
    /\ timerActive = FALSE
    /\ submits = <<>>
    /\ clicks = 0

\* the page is loaded: localStorage and the provider may hold a session of an
\* earlier visit; the listener is subscribed and its first push is due
InitAuth ==
    /\ IdlePlayer /\ IdleStore /\ IdleImport /\ IdleScore
    /\ IdleBookmarks /\ IdleReads
    /\ view = "auth"
    /\ currentUser = NoUser
    /\ activeQuiz = FALSE
    /\ lastResult = [id |-> 0]
    /\ loginError = "none"
    /\ firebaseUser \in {NoUser, FbUid}
    /\ guestData \in {NoUser, GuestUid(0)}
    /\ listenerUser = NoUser
    /\ pushDue = TRUE
    /\ effectDue = FALSE
    /\ popupOpen = FALSE
    /\ guestClock = 0
    /\ signedOut = "no"

NextAuth ==
    \/ ProviderPush
    \/ Resubscribe
    \/ HandleGuestLogin
    \/ HandleLogin
    \/ \E o \in PopupOutcomes : PopupSettle(o)
    \/ DismissLoginError
    \/ HandleLogout
    \/ \E v \in {"dashboard", "admin"} : Navigate(v)

SpecAuth == InitAuth /\ [][NextAuth]_vars

\* A quiz is in progress under the App's identity handling.  Either a guest
\* plays, who logged in while the first push of the provider was still due
\* (the provider may hold the session of an earlier visit) and for whom the
\* auth effect has yet to re-run; or a signed-in user plays.  The clock is
\* left to the specifications of the player.
InitShell ==
    /\ IdleStore /\ IdleImport /\ IdleScore /\ IdleReads
    /\ loginError = "none"
    /\ view = "quiz"
    /\ activeQuiz = TRUE
    /\ lastResult = NoResult
    /\ questions \in SessionLists
    /\ answers = EmptyAnswers
    /\ currentIndex = 0
    /\ timeLeft = Len(questions) * SecondsPerQuestion
    /\ timerActive = TRUE
    /\ submits = <<>>
    /\ clicks = 0
    /\ bookmarks = {}
    /\ pendingToggles = <<>>
    /\ popupOpen = FALSE
    /\ signedOut = "no"
    /\ \/ /\ currentUser = GuestUid(1)
          /\ guestData = GuestUid(1)
          /\ guestClock = 1
          /\ firebaseUser \in {NoUser, FbUid}
          /\ listenerUser = NoUser
          /\ pushDue = TRUE
          /\ effectDue = TRUE
       \/ /\ currentUser = FbUid
          /\ guestData = NoUser
          /\ guestClock = 0
          /\ firebaseUser = FbUid
          /\ listenerUser = FbUid
          /\ pushDue = FALSE
          /\ effectDue = FALSE
    /\ loads = <<NewLoad(currentUser, 1)>>

NextShell ==
    \/ ProviderPush
    \/ Resubscribe
    \/ HandleLogout
    \/ \E opt \in {Str1("x"), Str1("y")} : SelectOption(opt)
    \/ ManualSubmit
    \/ \E i \in 1..Len(submits), ok \in BOOLEAN : SaveSettle(i, ok)
    \/ \E i \in 1..Len(loads), ok \in BOOLEAN : LoadSettle(i, ok)
    \/ BookmarkClick
    \/ \E i \in 1..Len(pendingToggles) : BookmarkApply(i)

SpecShell == InitShell /\ [][NextShell]_vars

(***************************************************************************)
(* The store, the import pipeline and the scoring on their own             *)
(***************************************************************************)
IdleApp ==
    /\ view = "dashboard"
    /\ currentUser = FbUid
    /\ activeQuiz = FALSE
    /\ lastResult = NoResult
    /\ loginError = "none"

InitStore ==
    /\ IdleApp /\ IdlePlayer /\ IdleIdentity /\ IdleStore /\ IdleImport /\ IdleScore
    /\ IdleBookmarks /\ IdleReads

StoreTexts == {<<"a">>, <<"b">>}

\* a question a caller hands to addQuestions, with the id the caller gave it
CallerQuestion(t) ==
    [id |-> CallerId(1), text |-> t, options |-> TwoOptions,
     correctAnswer |-> LetterA, tag |-> 1]

NextStore ==
    \/ \E u \in Owners, q \in QuestionIds : ToggleBookmark(u, q)
    \/ \E u \in Owners, t \in StoreTexts, ok \in BOOLEAN :
          AddQuestions(u, <<CallerQuestion(t)>>, <<ok>>)

SpecStore == InitStore /\ [][NextStore]_vars

\* toggleBookmark calls that overlap: each reads, then writes
NextToggle ==
    \/ \E u \in Owners, q \in QuestionIds : ToggleRead(u, q)
    \/ \E i \in 1..Len(toggleCalls) : ToggleWrite(i)

SpecToggle == InitStore /\ [][NextToggle]_vars

\* the owner's question bank may hold a question of an earlier import
InitImport ==
    /\ IdleApp /\ IdlePlayer /\ IdleIdentity /\ IdleImport /\ IdleScore
    /\ IdleBookmarks /\ IdleReads
    /\ bookmarksDoc = [u \in Owners |-> NoDoc]
    /\ toggleLog = EmptyLog
    /\ toggleCalls = <<>>
    /\ \E old \in {{}, {StoredDoc(CallerQuestion(<<"b">>), DocId(1))},
                    {StoredDoc(CallerQuestion(<<"a">>), DocId(1))}} :
          /\ questionDocs = [u \in Owners |-> IF u = ImportUser THEN old ELSE {}]
          /\ nextDocId = Cardinality(old)

NextImport ==
    \E count \in 0..MaxCount, genOk \in BOOLEAN, raw \in RawAnswers,
       landed \in [1..MaxRaw -> BOOLEAN] :
          HandleGenerate(count, genOk, raw, landed)

SpecImport == InitImport /\ [][NextImport]_vars

\* What the generative model may answer: the response schema marks no field
\* as required and bounds neither the text nor the options, so an item may
\* have an empty question or a single option.  (Fields are present here: an
\* absent one makes q.text.trim() or setDoc throw.)
UntrustedItems ==
    { [text |-> <<"a">>, options |-> TwoOptions],
      [text |-> <<>>, options |-> TwoOptions],
      [text |-> <<"b">>, options |-> << <<"x">> >>] }

UntrustedAnswers ==
    { [i \in 1..Len(t) |->
          [id |-> CallerId(i), text |-> t[i].text, options |-> t[i].options,
           correctAnswer |-> LetterA, tag |-> i]] :
        t \in SeqsUpTo(UntrustedItems, MaxRaw) }

NextValidate ==
    \E count \in 0..MaxCount, genOk \in BOOLEAN, raw \in UntrustedAnswers,
       landed \in [1..MaxRaw -> BOOLEAN] :
          HandleGenerate(count, genOk, raw, landed)

SpecValidate == InitImport /\ [][NextValidate]_vars

InitScore ==
    /\ IdleApp /\ IdlePlayer /\ IdleIdentity /\ IdleStore /\ IdleImport
    /\ IdleBookmarks /\ IdleReads
    /\ \E o1 \in OptionTexts, o2 \in OptionTexts, c \in 1..2, sel \in 1..2 :
          /\ o1 # o2
          /\ scoreCase = [NoCase EXCEPT !.options = <<o1, o2>>, !.correct = c,
                                        !.selected = sel]

SpecScore == InitScore /\ [][ScoreBoth]_vars

(***************************************************************************)
(* Reads of the question bank: the Dashboard's load and the App's review    *)
(* effect                                                                  *)
(***************************************************************************)
MaxStored == 2          \* documents in the owner's collection
MaxReview == 2          \* questions of the result under review

ReadUser == FbUid

\* the document d without its field f
Without(d, f) == [g \in DOMAIN d \ {f} |-> d[g]]

\* a document as addQuestions stores it
GoodDoc(n, t) == StoredDoc(CallerQuestion(t), DocId(n))

GoodDocs == {GoodDoc(1, <<"a">>), GoodDoc(2, <<"b">>), GoodDoc(3, <<"a">>)}

\* documents the validation of getQuestions is written for: the array format
\* of an earlier layout (with or without question fields beside it), and
\* single questions with a field absent or empty
OddDocs ==
    { [docId |-> DocId(4), questions |-> <<CallerQuestion(<<"a">>)>>],
      [GoodDoc(5, <<"a">>) EXCEPT !.tag = 2] @@ [questions |-> <<>>],
      Without(GoodDoc(6, <<"a">>), "id"),
      Without(GoodDoc(7, <<"a">>), "text"),
      [GoodDoc(8, <<"a">>) EXCEPT !.text = <<>>],
      Without(GoodDoc(9, <<"a">>), "options"),
      [GoodDoc(10, <<"a">>) EXCEPT !.options = <<>>],
      Without(GoodDoc(11, <<"a">>), "correctAnswer") }

DocPool == GoodDocs \cup OddDocs

\* a question as the player got it from a stored document
QuestionOf(d) == Without(d, "docId")

\* lastResult.details.map(d => d.questionId)
DetailIds(r) == [i \in 1..Len(r.details) |-> r.details[i].questionId]

\* a result is under review; the documents of the questions it was made
\* from may since have been deleted from the owner's collection
InitRead ==
    /\ IdlePlayer /\ IdleIdentity /\ IdleImport /\ IdleScore
    /\ IdleBookmarks /\ IdleReads
    /\ view = "review"
    /\ currentUser = ReadUser
    /\ activeQuiz = FALSE
    /\ loginError = "none"
    /\ \E qs \in SeqsUpTo(GoodDocs, MaxReview) :
          /\ qs # <<>>
          /\ lastResult = BuildResult([i \in 1..Len(qs) |-> QuestionOf(qs[i])],
                                      EmptyAnswers, ReadUser, 1)
    /\ bookmarksDoc = [u \in Owners |-> NoDoc]
    /\ toggleLog = EmptyLog
    /\ toggleCalls = <<>>
    /\ nextDocId = 11
    /\ \E docs \in SUBSET DocPool :
          /\ Cardinality(docs) <= MaxStored
          /\ questionDocs = [u \in Owners |-> IF u = ReadUser THEN docs ELSE {}]

\* the App's call storageService.getQuestionsByIds(ids): the list of ids is
\* bound to the parameter userId, and the parameter ids is undefined
AppGetQuestionsByIds(ids) == GetQuestionsByIds(ids, Undefined)

\* the review effect and the resolution of its read: setReviewQuestions
ReviewEffect ==
    /\ view = "review" /\ lastResult # NoResult
    /\ ~reviewQuestions.done
    /\ reviewQuestions' = [done |-> TRUE,
                           list |-> AppGetQuestionsByIds(DetailIds(lastResult))]
    /\ UNCHANGED <<appVars, playerVars, idVars, storeVars, importVars, scoreCase,
                   bookmarkVars, lastRead>>

\* Review's onBack
ReviewBack ==
    /\ view = "review"
    /\ view' = "dashboard"
    /\ lastResult' = NoResult
    /\ UNCHANGED <<currentUser, activeQuiz, loginError, playerVars, idVars, storeVars,
                   importVars, scoreCase, bookmarkVars, readVars>>

\* Dashboard.loadData: storageService.getQuestions(user.uid)
DashboardLoad ==
    /\ view = "dashboard"
    /\ ~lastRead.done
    /\ lastRead' = [done |-> TRUE, list |-> GetQuestions(currentUser)]
    /\ UNCHANGED <<appVars, playerVars, idVars, storeVars, importVars, scoreCase,
                   bookmarkVars, reviewQuestions>>

NextRead ==
    \/ ReviewEffect
    \/ ReviewBack
    \/ DashboardLoad

SpecRead == InitRead /\ [][NextRead]_vars

(***************************************************************************)
(* Properties                                                              *)
(***************************************************************************)
Settled == {i \in 1..Len(submits) : submits[i].status # "pending"}

\* C1: within one quiz session submission runs at most once: at most one
\* saveQuizResult call is issued and onComplete is invoked at most once,
\* whatever the interleaving of Submit clicks, timer ticks, answer selections
\* and the pending history write.
C1_SubmitAtMostOnce ==
    /\ Len(submits) <= 1
    /\ Cardinality(Settled) <= 1

\* C2: a provider push of null delivered while the current identity is a
\* Guest leaves the current identity unchanged and does not switch the view
\* to 'auth'.
C2_GuestSurvivesNullPush ==
    [][(ProviderPush /\ firebaseUser = NoUser /\ StartsWithGuest(currentUser))
          => (currentUser' = currentUser /\ view' # "auth")]_vars

\* a guest is current, the listener was re-subscribed under that guest and
\* the null push that followed the subscription has been delivered
C2_Witness ==
    /\ StartsWithGuest(currentUser)
    /\ listenerUser = currentUser
    /\ firebaseUser = NoUser
    /\ ~pushDue
    /\ guestClock >= 1

CorrectCount(r) == Cardinality({k \in 1..Len(r.details) : r.details[k].isCorrect})

\* C3: every QuizResult produced by a submission has score equal to the
\* number of details entries with isCorrect, and as many details entries as
\* totalQuestions, which is the number of questions of the session.
C3_ResultConsistent ==
    \A i \in 1..Len(submits) :
        LET r == submits[i].result IN
        /\ r.score = CorrectCount(r)
        /\ Len(r.details) = r.totalQuestions
        /\ r.totalQuestions = Len(questions)

\* a result over three questions with one correct, one wrong and one
\* unanswered entry
C3_Witness ==
    \E i \in 1..Len(submits) :
        LET r == submits[i].result IN
        /\ r.totalQuestions = 3 /\ r.score = 1
        /\ \E k \in 1..3 : r.details[k].selectedOption = Null
        /\ \E k \in 1..3 : r.details[k].selectedOption # Null /\ ~r.details[k].isCorrect

\* C4: a question whose correct option is stored as its letter and the same
\* question storing that option's literal text score identically: selecting
\* the correct option is correct under both, selecting another is incorrect
\* under both.
C4_ConventionsAgree ==
    scoreCase.scored =>
        /\ scoreCase.byLetter = (scoreCase.selected = scoreCase.correct)
        /\ scoreCase.byText = (scoreCase.selected = scoreCase.correct)

E2EAnswers == [x \in {"q1", "q3"} |-> Str1("x")]

RECURSIVE Alternates(_, _)
Alternates(log, expect) ==
    log = <<>> \/ (Head(log) = expect /\ Alternates(Tail(log), ~expect))

\* C6: sequential toggleBookmark calls for one (owner, question), starting
\* from not bookmarked, return true, false, true, ..., and after each call
\* the question is in the owner's bookmark set exactly if the call returned
\* true.
C6_ToggleAlternates ==
    \A u \in Owners, q \in QuestionIds :
        LET log == toggleLog[u][q] IN
        /\ Alternates(log, TRUE)
        /\ InSeq(q, GetUserBookmarks(u)) = (log # <<>> /\ log[Len(log)])

\* three calls made for one question of an owner who also toggled another
\* question, while the other owner has no bookmark document
C6_Witness ==
    \E u \in Owners, v \in Owners, q \in QuestionIds, p \in QuestionIds :
        /\ toggleLog[u][q] = <<TRUE, FALSE, TRUE>>
        /\ toggleLog[u][p] # <<>> /\ p # q
        /\ v # u /\ bookmarksDoc[v] = NoDoc

\* question texts equal up to case and surrounding whitespace
LowerChar(c) == IF c = "A" THEN "a" ELSE IF c = "B" THEN "b" ELSE c
NormalizeText(t) == LET u == Trim(t) IN [i \in 1..Len(u) |-> LowerChar(u[i])]

\* C7: an import stores at most the requested count of questions, and no
\* two questions it stores have the same text after normalization (trimmed,
\* case-insensitive).
C7_ImportUniqueByText ==
    /\ Cardinality(importLog.written) <= importLog.count
    /\ \A d \in importLog.written, e \in importLog.written :
          d # e => NormalizeText(d.text) # NormalizeText(e.text)

\* the import failed before writing: the generator failed, or returned no
\* candidate, or no candidate is left after dedup and truncation
ImportFailed ==
    \/ ~importLog.genOk
    \/ importLog.returned = <<>>
    \/ FinalQuestions(importLog.returned, importLog.count) = <<>>

\* C8: a failed import writes nothing: addQuestions is not called, the
\* question store is unchanged and an error is shown, never a success.
C8_FailedImportWritesNothing ==
    (imports > 0 /\ importLog # NoImport /\ ImportFailed) =>
        /\ ~importLog.called
        /\ importLog.written = {}
        /\ questionDocs[ImportUser] = importLog.before
        /\ resultMsg = "error"

\* a failed import into a question bank that held a question
C8_Witness ==
    /\ imports >= 1
    /\ importLog.count >= 1
    /\ ImportFailed
    /\ importLog.before # {}
    /\ resultMsg = "error"

StoreOpFor(u) ==
    \/ \E q \in QuestionIds : ToggleBookmark(u, q)
    \/ \E t \in StoreTexts, ok \in BOOLEAN :
          AddQuestions(u, <<CallerQuestion(t)>>, <<ok>>)

\* C9: stored data is partitioned by owner: no store operation for one owner
\* changes the bookmark set or the question list read for another owner, so
\* what a guest bookmarked or imported is not read for the authenticated
\* identity that follows it.
C9_OwnersPartitioned ==
    [][\A u \in Owners : StoreOpFor(u) =>
          \A v \in Owners \ {u} :
              /\ GetUserBookmarks(v)' = GetUserBookmarks(v)
              /\ GetQuestions(v)' = GetQuestions(v)]_vars

\* the guest bookmarked q1 and holds a question; the authenticated owner,
\* who acted too, reads neither
C9_Witness ==
    /\ InSeq("q1", GetUserBookmarks(GuestUid(1)))
    /\ GetQuestions(GuestUid(1)) # {}
    /\ ~InSeq("q1", GetUserBookmarks(FbUid))
    /\ bookmarksDoc[FbUid].exists
    /\ GetQuestions(FbUid) # {}
    /\ GetQuestions(FbUid) \cap GetQuestions(GuestUid(1)) = {}

\* C10: after the explicit sign-out of a Guest (a local reset, no remote
\* call) the current identity is Unauthenticated, with view 'auth', and
\* stays so under null pushes until a guest login or a non-null push.
C10_GuestSignOutSticks ==
    signedOut = "guest" => (currentUser = NoUser /\ view = "auth")

\* C11: after every identity-kind transition the local session artifacts are
\* cleared: no "quiz_guest_data" is stored after a sign-out (guest or
\* authenticated) or while an authenticated identity is current, and under a
\* guest the stored snapshot is that guest's own.  (No operation of the
\* program writes "quiz_local_questions", so that key is absent throughout.)
C11_ArtifactsCleared ==
    /\ signedOut # "no" => guestData = NoUser
    /\ (currentUser # NoUser /\ ~StartsWithGuest(currentUser)) => guestData = NoUser
    /\ StartsWithGuest(currentUser) => guestData = currentUser

PrescribedLoginError(outcome) ==
    IF outcome = "auth/popup-closed-by-user" THEN "none"
    ELSE IF outcome = "auth/unauthorized-domain" THEN "domain"
    ELSE "generic"

\* C13: a failed provider sign-in never changes the current identity and is
\* classified: a popup dismissed by the user surfaces no login error, an
\* unauthorized domain surfaces the domain error (with the host), every
\* other failure a generic error.
C13_LoginFailuresClassified ==
    [][\A o \in PopupOutcomes \ {"ok"} :
          PopupSettle(o) =>
              /\ currentUser' = currentUser
              /\ loginError' = PrescribedLoginError(o)]_vars

\* C14: after any sequence of addQuestions calls, with re-imported candidates
\* and colliding caller-supplied ids, the ids within one owner's collection
\* are pairwise distinct, each stored id field is the document's id, and no
\* stored document is overwritten or lost.
C14_StoreAssignsIds ==
    /\ [](\A u \in Owners : \A d \in questionDocs[u], e \in questionDocs[u] :
              /\ d.id = d.docId
              /\ d # e => (d.id # e.id /\ d.docId # e.docId))
    /\ [][\A u \in Owners : questionDocs[u] \subseteq questionDocs'[u]]_vars

\* the same candidate, with the same caller-supplied id, stored twice for
\* one owner
C14_Witness ==
    \E u \in Owners :
        /\ Cardinality(questionDocs[u]) = 2
        /\ \A d \in questionDocs[u] : d.text = <<"a">>

\* a single question, not the array format, with an id, a text, an options
\* array and a correctAnswer (a string that is empty counts as missing)
WellFormedDoc(d) ==
    /\ ~Has(d, "questions")
    /\ Has(d, "id") /\ d.id # <<>>
    /\ Has(d, "text") /\ d.text # <<>>
    /\ Has(d, "options")
    /\ Has(d, "correctAnswer") /\ d.correctAnswer # <<>>

\* C15: getQuestions(owner) returns exactly the owner's well-formed question
\* documents: documents in array format or missing id, text, options or
\* correctAnswer are skipped, the read does not fail and no well-formed
\* document is dropped.
C15_ReadSkipsMalformed ==
    lastRead.done =>
        lastRead.list = {d \in questionDocs[ReadUser] : WellFormedDoc(d)}

\* a read of a collection holding a well-formed and a malformed document
C15_Witness ==
    /\ lastRead.done
    /\ lastRead.list # {}
    /\ lastRead.list # questionDocs[ReadUser]

\* C16: the review question list of a completed result is the sequence of
\* the questions whose ids appear in result.details, in the order of
\* details, without the ids that no longer resolve in the owner's store.
C16_ReviewFollowsDetails ==
    (view = "review" /\ reviewQuestions.done) =>
        reviewQuestions.list =
            ResolveIds({d \in questionDocs[currentUser] : WellFormedDoc(d)},
                       DetailIds(lastResult))

\* C17: in every state of a quiz session currentIndex is within
\* [0, count - 1]: Previous at the first question and Next at the last one
\* do not move it out of range.
C17_IndexInRange ==
    activeQuiz => (currentIndex >= 0 /\ currentIndex <= Len(questions) - 1)

\* the last of three questions, reached by Next, with Previous having been
\* possible on the way
C17_Witness ==
    /\ activeQuiz
    /\ Len(questions) = 3
    /\ currentIndex = 2
    /\ NextDisabled(currentIndex, Len(questions))

\* C18: selecting an option for the current question sets that question's
\* answer to the option, overwriting an earlier one, and leaves the answers
\* of the other questions, currentIndex, timeLeft and the bookmark view
\* unchanged; in every submission a question without a selection has
\* selectedOption null.
C18_SelectFrame ==
    /\ [][\A opt \in {Str1("x"), Str1("y")} :
             SelectOption(opt) =>
                 LET qid == questions[currentIndex + 1].id IN
                 /\ DOMAIN answers' = DOMAIN answers \cup {qid}
                 /\ answers'[qid] = opt
                 /\ \A x \in DOMAIN answers \ {qid} : answers'[x] = answers[x]
                 /\ UNCHANGED <<currentIndex, timeLeft, bookmarks>>]_vars
    /\ [](\A i \in 1..Len(submits) :
             \A k \in 1..Len(submits[i].result.details) :
                 LET d == submits[i].result.details[k] IN
                 d.questionId \notin DOMAIN submits[i].answersAtCall
                     => d.selectedOption = Null)

\* both questions are answered, the second selection having kept the first,
\* while a bookmark is in the local view and the clock has run
C18_Witness ==
    /\ activeQuiz
    /\ DOMAIN answers = {"q1", "q2"}
    /\ bookmarks # {}
    /\ timeLeft < Len(questions) * SecondsPerQuestion

\* C19: after each bookmark toggle completed during a session, the toggled
\* question is in the local bookmark view exactly if toggleBookmark returned
\* true, also when the initial load has not completed or has failed; the
\* toggle changes neither answers nor the timer.
C19_ViewFollowsToggle ==
    [][/\ \A i \in 1..Len(pendingToggles) :
             (BookmarkApply(i) /\ Mounted /\ pendingToggles[i].mount = CurrentMount) =>
                 /\ (pendingToggles[i].q \in bookmarks') = pendingToggles[i].returned
                 /\ UNCHANGED <<answers, timeLeft, timerActive>>
       /\ BookmarkClick => UNCHANGED <<answers, timeLeft, timerActive>>]_vars

\* C20: once the session is exited or the player unmounted the timer is
\* stopped (no tick decrements the time or submits), and a bookmark load
\* that resolves after the unmount changes no state of that session or of
\* a later one.
C20_UnmountStopsTimerAndLoad ==
    /\ [](~activeQuiz => ~timerActive)
    /\ [][(~activeQuiz /\ ~activeQuiz') =>
              (timeLeft' = timeLeft /\ Len(submits') = Len(submits))]_vars
    /\ [][\A i \in 1..Len(loads) : \A ok \in BOOLEAN :
              (LoadSettle(i, ok) /\ ~loads[i].active) =>
                  UNCHANGED <<bookmarks, answers, currentIndex, timeLeft,
                              timerActive, submits>>]_vars

\* a later session runs, and the load of the exited one resolved during it
\* with a bookmark of the user in the store
C20_Witness ==
    /\ activeQuiz /\ timerActive
    /\ Len(loads) = 2
    /\ loads[1].status = "dropped"
    /\ loads[2].status = "pending"
    /\ InSeq("q1", GetUserBookmarks(QuizUser))

\* C21: once a submission of the session has begun, by the Submit button or
\* by the clock, no further timer tick occurs in that session: none
\* decrements timeLeft and none calls handleSubmit, also while the history
\* write is pending and after further selections.
C21_ClockStoppedOnSubmit ==
    [][(submits # <<>> /\ activeQuiz) =>
          ~(TimerTick /\ (timeLeft' # timeLeft \/ submits' # submits))]_vars

\* C22: the countdown starts at 60 x (number of questions); every tick
\* decreases timeLeft by exactly 1 until it is 0; timeLeft is never below 0
\* and never increases during an attempt, and nothing but a tick changes
\* it: not a selection, not navigation, not a bookmark toggle.
C22_Countdown ==
    /\ timeLeft = Len(questions) * SecondsPerQuestion
    /\ [](timeLeft >= 0)
    /\ [][TimerTick => timeLeft' = IF timeLeft > 0 THEN timeLeft - 1 ELSE 0]_vars
    /\ [][(activeQuiz /\ activeQuiz') =>
              /\ timeLeft' <= timeLeft
              /\ (timeLeft' # timeLeft => TimerTick)]_vars

\* the clock ran out and ticked once more at zero, in an attempt with a
\* selection and a bookmark
C22_Witness ==
    /\ activeQuiz
    /\ timeLeft = 0
    /\ Len(submits) = 2
    /\ answers # EmptyAnswers
    /\ bookmarks # {}

\* the calls of owner u that have not completed
InFlight(u) == {i \in 1..Len(toggleCalls) : toggleCalls[i].uid = u}

TrueCount(log) == Cardinality({i \in 1..Len(log) : log[i]})

\* C23: for any interleaving of k toggleBookmark calls of one owner on one
\* question, starting from not bookmarked, once all calls have completed
\* the question is bookmarked exactly if k is odd, and exactly ceil(k/2) of
\* the calls returned true.
C23_ConcurrentToggles ==
    \A u \in Owners, q \in QuestionIds :
        (/\ InFlight(u) = {}
         /\ \A p \in QuestionIds \ {q} : toggleLog[u][p] = <<>>) =>
            LET k == Len(toggleLog[u][q]) IN
            /\ InSeq(q, GetUserBookmarks(u)) = (k % 2 = 1)
            /\ TrueCount(toggleLog[u][q]) = (k + 1) \div 2

\* C24: a toggleBookmark call changes the membership of its own question
\* only: every other question id is in the owner's bookmark set after the
\* call's write exactly if it was before, also when two calls for different
\* questions both read that the owner has no bookmark document yet.
C24_ToggleFrame ==
    [][\A i \in 1..Len(toggleCalls), u \in Owners, p \in QuestionIds :
          (ToggleWrite(i) /\ toggleCalls[i].uid = u /\ toggleCalls[i].q # p) =>
              InSeq(p, GetUserBookmarks(u))' = InSeq(p, GetUserBookmarks(u))]_vars

\* C25: of several candidates of one import with the same normalized text
\* the import keeps the earliest, with its own fields: every question it
\* stores comes from a candidate that no earlier candidate equals in text
\* (here already after trimming alone).
C25_KeepsEarliest ==
    \A d \in importLog.written :
        \A i \in 1..Len(importLog.returned) :
            importLog.returned[i].tag = d.tag =>
                \A j \in 1..(i - 1) :
                    Trim(importLog.returned[j].text) # Trim(importLog.returned[i].text)

\* non-empty text, at least two options, a correctAnswer
ValidQuestion(d) ==
    /\ d.text # <<>>
    /\ Len(d.options) >= 2
    /\ d.correctAnswer # <<>>

\* C26: no question the generation adapter produced is written to the
\* question store unless it is valid (non-empty text, at least 2 options, a
\* correctAnswer): invalid candidates are rejected or skipped before
\* addQuestions.
C26_OnlyValidStored ==
    \A d \in importLog.written : ValidQuestion(d)

\* C27: every started session that is not exited eventually completes: with
\* the interval firing and the history write settling (written or
\* rejected), onComplete is eventually called with a result, though the
\* user never clicks Submit and whatever selections are made meanwhile.
C27_EventuallyComplete ==
    [](activeQuiz => <>(\/ view = "dashboard"
                        \/ (view = "review" /\ lastResult # NoResult /\ ~activeQuiz)))

\* the clock's submission, made after a selection, was delivered although
\* its history write was rejected
C27_Witness ==
    /\ view = "review" /\ ~activeQuiz
    /\ Len(submits) = 1
    /\ submits[1].by = "timer"
    /\ submits[1].status = "failed"
    /\ submits[1].answersAtCall # EmptyAnswers
    /\ lastResult = submits[1].result

\* C29: a session that was explicitly exited never delivers a result
\* afterwards: while the App shows the dashboard it was sent to by the exit,
\* a history write that was pending at the exit does not set lastResult and
\* does not switch the view to 'review'.
C29_ExitedNeverDelivers ==
    [][view = "dashboard" => (view' # "review" /\ lastResult' = lastResult)]_vars

\* C28: in every reachable state view = 'auth' exactly if currentUser is
\* null: neither a sign-out nor a null push of the provider, interleaved
\* with a pending quiz-result save, leaves the App on the quiz or the review
\* view without a current identity.
C28_AuthViewIffNoUser ==
    (view = "auth") <=> (currentUser = NoUser)

\* C30: a session never mixes identities: every QuizResult it builds is for
\* the identity the session was started under (the userId of its first
\* bookmark load), and its bookmark toggles go to no other identity's
\* bookmark set, also when the provider pushes an authenticated identity
\* while a guest's quiz is in progress.
C30_SessionKeepsIdentity ==
    /\ \A i \in 1..Len(submits) : submits[i].result.userId = loads[1].uid
    /\ \A u \in Owners \ {loads[1].uid}, q \in QuestionIds : toggleLog[u][q] = <<>>

====
